---- MODULE Spec2Model ----
(***************************************************************************)
(* nostd-float-math-monitor: the detection pipeline of src/main.rs.        *)
(*                                                                         *)
(* The program compiles a target package twice (emit mir, emit asm) into   *)
(* a temporary build directory, locates the single emitted artifact, scans *)
(* it line by line against a regular expression and reports whether std    *)
(* float math was found.  Text (lines, file names, patterns) is modelled   *)
(* as sequences of one-character strings, so that the regular expressions  *)
(* and the glob are computed character by character.                       *)
(***************************************************************************)
EXTENDS Integers, Sequences, FiniteSets, TLC

(***************************************************************************)
(* Bounds of the model.                                                    *)
(***************************************************************************)
\* longest artifact file, in lines
MaxLines == 2
\* most files the compiler leaves in the deps directory
MaxArtifacts == 2
\* longest impl index of the probe lines, in digits
MaxDigits == 2

(***************************************************************************)
(* Text.                                                                   *)
(***************************************************************************)
None == << >>
Some(x) == << x >>

\* s has lit as a substring starting at position i
LitAt(s, i, lit) ==
    /\ i >= 1
    /\ i + Len(lit) - 1 <= Len(s)
    /\ \A k \in 1..Len(lit) : s[i + k - 1] = lit[k]

\* (f32|f64)
FloatWidths == { <<"f", "3", "2">>, <<"f", "6", "4">> }

\* (abs|abs_sub|...|trunc), the alternation shared by both patterns
MathFns ==
    { <<"a", "b", "s">>,
      <<"a", "b", "s", "_", "s", "u", "b">>,
      <<"a", "c", "o", "s">>,
      <<"a", "c", "o", "s", "h">>,
      <<"a", "s", "i", "n">>,
      <<"a", "s", "i", "n", "h">>,
      <<"a", "t", "a", "n">>,
      <<"a", "t", "a", "n", "2">>,
      <<"a", "t", "a", "n", "h">>,
      <<"c", "b", "r", "t">>,
      <<"c", "e", "i", "l">>,
      <<"c", "o", "p", "y", "s", "i", "g", "n">>,
      <<"c", "o", "s">>,
      <<"c", "o", "s", "h">>,
      <<"d", "i", "v", "_", "e", "u", "c", "l", "i", "d">>,
      <<"e", "x", "p">>,
      <<"e", "x", "p", "2">>,
      <<"e", "x", "p", "_", "m", "1">>,
      <<"f", "l", "o", "o", "r">>,
      <<"f", "r", "a", "c", "t">>,
      <<"h", "y", "p", "o", "t">>,
      <<"l", "n">>,
      <<"l", "n", "_", "1", "p">>,
      <<"l", "o", "g">>,
      <<"l", "o", "g", "1", "0">>,
      <<"l", "o", "g", "2">>,
      <<"m", "u", "l", "_", "a", "d", "d">>,
      <<"p", "o", "w", "f">>,
      <<"p", "o", "w", "i">>,
      <<"r", "e", "m", "_", "e", "u", "c", "l", "i", "d">>,
      <<"r", "o", "u", "n", "d">>,
      <<"s", "i", "g", "n", "u", "m">>,
      <<"s", "i", "n">>,
      <<"s", "i", "n", "_", "c", "o", "s">>,
      <<"s", "i", "n", "h">>,
      <<"s", "q", "r", "t">>,
      <<"t", "a", "n">>,
      <<"t", "a", "n", "h">>,
      <<"t", "r", "u", "n", "c">> }

\* [0-9]
Digits == { "0", "1", "2", "3", "4", "5", "6", "7", "8", "9" }

\* the pattern without the back-reference: the impl width is free
mir_pattern_no_backref(line) ==
    \E i \in 1..Len(line) :
        /\ LitAt(line, i, <<"s", "t", "d", ":", ":">>)
        /\ \E w1 \in FloatWidths : LitAt(line, i + 5, w1)
        /\ LitAt(line, i + 8, <<":", ":", "<", "i", "m", "p", "l", " ">>)
        /\ \E w2 \in FloatWidths : LitAt(line, i + 16, w2)
        /\ LitAt(line, i + 19, <<">", ":", ":">>)
        /\ \E fn \in MathFns : LitAt(line, i + 22, fn)

\* Regex std::(f32|f64)::<impl \1>::(abs|...|trunc), searched anywhere in
\* the line; \1 repeats the text captured by the first group.
mir_pattern(line) ==
    \E i \in 1..Len(line) :
        /\ LitAt(line, i, <<"s", "t", "d", ":", ":">>)
        /\ \E w \in FloatWidths :
              /\ LitAt(line, i + 5, w)
              /\ LitAt(line, i + 8, <<":", ":", "<", "i", "m", "p", "l", " ">>)
              /\ LitAt(line, i + 16, w)
        /\ LitAt(line, i + 19, <<">", ":", ":">>)
        /\ \E fn \in MathFns : LitAt(line, i + 22, fn)

\* Regex std::(f32|f64)::impl\$[0-9]+::(abs|...|trunc), searched anywhere
\* in the line; n is the length of the run of digits [0-9]+ consumes.
asm_pattern(line) ==
    \E i \in 1..Len(line) :
        /\ LitAt(line, i, <<"s", "t", "d", ":", ":">>)
        /\ \E w \in FloatWidths : LitAt(line, i + 5, w)
        /\ LitAt(line, i + 8, <<":", ":", "i", "m", "p", "l", "$">>)
        /\ \E n \in 1..Len(line) :
              /\ i + 15 + n - 1 <= Len(line)
              /\ \A k \in 0..(n - 1) : line[i + 15 + k] \in Digits
              /\ LitAt(line, i + 15 + n, <<":", ":">>)
              /\ \E fn \in MathFns : LitAt(line, i + 15 + n + 2, fn)

EmitTypes == { "Mir", "Asm" }

\* the std_math_patterns argument of test_asm_or_mir for each emit type
std_math_patterns(emit, line) ==
    IF emit = "Mir" THEN mir_pattern(line) ELSE asm_pattern(line)

(***************************************************************************)
(* The artifact glob.                                                      *)
(***************************************************************************)
\* the package name read from the manifest of the tested crate
tested_package_name == <<"d", "e", "m", "o">>

\* the extension the emit type selects
emit_ext(emit) == IF emit = "Asm" THEN <<"s">> ELSE <<"m", "i", "r">>

\* the file-name part of emit_file_pat: <package name>*.<ext>
emit_file_pat(emit) == tested_package_name \o <<"*", ".">> \o emit_ext(emit)

\* glob matching of one path component, case sensitive: * matches any run
\* of characters, every other character matches itself
RECURSIVE GlobMatch(_, _)
GlobMatch(pat, name) ==
    IF pat = << >> THEN name = << >>
    ELSE IF Head(pat) = "*"
         THEN \E k \in 0..Len(name) : GlobMatch(Tail(pat), SubSeq(name, k + 1, Len(name)))
         ELSE /\ name # << >>
              /\ Head(name) = Head(pat)
              /\ GlobMatch(Tail(pat), Tail(name))

\* the paths glob_with yields for the pattern in the deps directory
glob_with(emit, dir) == { n \in dir : GlobMatch(emit_file_pat(emit), n) }

\* any non-empty match is taken
unique_artifact_first(matched) == Cardinality(matched) >= 1

\* files.len() == 1
unique_artifact(matched) == Cardinality(matched) = 1

(***************************************************************************)
(* What the external compiler may leave in <build_dir>/<target>/debug/deps *)
(***************************************************************************)
MirHit == <<"s", "t", "d", ":", ":", "f", "6", "4", ":", ":", "<", "i", "m", "p", "l", " ", "f", "6", "4", ">", ":", ":", "s", "i", "n">>
AsmHit == <<"s", "t", "d", ":", ":", "f", "3", "2", ":", ":", "i", "m", "p", "l", "$", "1", "7", ":", ":", "p", "o", "w", "f">>
MirMiss == <<"s", "t", "d", ":", ":", "f", "3", "2", ":", ":", "<", "i", "m", "p", "l", " ", "f", "6", "4", ">", ":", ":", "s", "q", "r", "t">>
Plain == <<"r", "e", "t">>
LinePool == { MirHit, AsmHit, MirMiss, Plain }

Contents == UNION { [1..n -> LinePool] : n \in 0..MaxLines }

FileNames ==
    { <<"d", "e", "m", "o", "-", "1", "a", ".", "m", "i", "r">>,
      <<"d", "e", "m", "o", "-", "1", "a", ".", "s">>,
      <<"d", "e", "m", "o", "_", "u", "t", "i", "l", "-", "2", "b", ".", "m", "i", "r">>,
      <<"d", "e", "m", "o", "_", "u", "t", "i", "l", "-", "2", "b", ".", "s">>,
      <<"d", "e", "m", "o", "-", "1", "a", ".", "d">>,
      <<"D", "e", "m", "o", "-", "1", "a", ".", "m", "i", "r">> }

NoFiles == { }

\* the sets of files one compiler run may write
CompilerOutputs == { T \in SUBSET FileNames : Cardinality(T) <= MaxArtifacts }

\* a workspace left behind by an earlier run
StaleDeps == { NoFiles, { <<"d", "e", "m", "o", "-", "1", "a", ".", "m", "i", "r">> } }

ExitCodes == { 0, 101 }

(***************************************************************************)
(* Results.                                                                *)
(***************************************************************************)
NoResult == [tag |-> "None", val |-> FALSE, kind |-> ""]
Ok(v)    == [tag |-> "Ok",   val |-> v,     kind |-> ""]
Err(k)   == [tag |-> "Err",  val |-> FALSE, kind |-> k]

Range(s) == { s[i] : i \in DOMAIN s }

SupportedHosts == { "windows", "macos" }
Hosts == SupportedHosts \cup { "linux" }

\* the combined verdict taken as a conjunction
main_result_and(asm, mir) == IF asm /\ mir THEN "StdFloatMath" ELSE "Ok"

\* the value main returns once both verdicts are known
main_result(asm, mir) == IF asm \/ mir THEN "StdFloatMath" ELSE "Ok"

(***************************************************************************)
(* Probes for the two patterns.                                            *)
(***************************************************************************)
DigitStrings == UNION { [1..n -> Digits] : n \in 1..MaxDigits }

Contexts == { [pre |-> << >>, post |-> << >>],
              [pre |-> <<"c", "a", "l", "l", " ">>, post |-> <<"(", "_", "1", ")">>] }

NoProbe == [kind |-> "none", w1 |-> << >>, w2 |-> << >>, n |-> << >>, fn |-> << >>,
            ctx |-> [pre |-> << >>, post |-> << >>]]

MirProbes == [kind : { "mir" }, w1 : FloatWidths, w2 : FloatWidths, n : { << >> },
              fn : MathFns, ctx : Contexts]
AsmProbes == [kind : { "asm" }, w1 : FloatWidths, w2 : { << >> }, n : DigitStrings,
              fn : MathFns, ctx : Contexts]

\* the line a probe stands for
ProbeLine(p) ==
    p.ctx.pre \o <<"s", "t", "d", ":", ":">> \o p.w1
        \o (IF p.kind = "mir" THEN <<":", ":", "<", "i", "m", "p", "l", " ">> \o p.w2 \o <<">">> ELSE <<":", ":", "i", "m", "p", "l", "$">> \o p.n)
        \o <<":", ":">> \o p.fn \o p.ctx.post

(***************************************************************************)
(* State.                                                                  *)
(***************************************************************************)
VARIABLES
    host,                  \* target_os the binary was built for
    pc,                    \* position in main
    emit_type,             \* emit type of the current sub-run
    dir_exists,            \* build_dir exists
    deps,                  \* names of the files in the deps directory of build_dir
    cwd,                   \* process working directory
    exit_status,           \* exit code of the compiler child, once it ended
    files,                 \* compiled_file: the paths collected from the glob
    emit_file,             \* test_asm_or_mir: the path compiled_file returned
    content,               \* std_math_used: the lines of the opened file
    line_no,               \* std_math_used: lines consumed so far
    line_content,          \* std_math_used: the line under test
    captures,              \* result of the last pattern search
    std_math_used_flag,    \* std_math_used: the local std_math_used
    stdout,                \* what the current scan printed
    res,                   \* result of the current test_asm_or_mir call
    std_math_used_in_mir,  \* main: verdict of the Mir sub-run
    std_math_used_in_asm,  \* main: verdict of the Asm sub-run
    outcome,               \* how the process ended
    panic_at,              \* where it panicked
    log,                   \* steps taken so far, <<emit type, step>>
    probe                  \* the probe a pattern is applied to

vars == << host, pc, emit_type, dir_exists, deps, cwd, exit_status, files, emit_file,
           content, line_no, line_content, captures, std_math_used_flag, stdout, res,
           std_math_used_in_mir, std_math_used_in_asm, outcome, panic_at, log, probe >>

fs      == << dir_exists, deps >>
scan    == << content, line_no, line_content, captures, std_math_used_flag, stdout >>
verdict == << std_math_used_in_mir, std_math_used_in_asm >>
ending  == << outcome, panic_at >>

Init ==
    /\ host \in Hosts
    /\ pc = "main"
    /\ emit_type = "Mir"
    /\ dir_exists \in BOOLEAN
    /\ deps \in (IF dir_exists THEN StaleDeps ELSE { NoFiles })
    /\ cwd = "this_crate_dir"
    /\ exit_status = None
    /\ files = None
    /\ emit_file = None
    /\ content = << >>
    /\ line_no = 0
    /\ line_content = << >>
    /\ captures = None
    /\ std_math_used_flag = FALSE
    /\ stdout = << >>
    /\ res = NoResult
    /\ std_math_used_in_mir = None
    /\ std_math_used_in_asm = None
    /\ outcome = "running"
    /\ panic_at = ""
    /\ log = << >>
    /\ probe = NoProbe

(***************************************************************************)
(* clear_temp_dir, as the two ways the call can end.                       *)
(***************************************************************************)
\* nothing to remove, or remove_dir_all succeeded
clear_temp_dir_ok ==
    /\ dir_exists' = FALSE
    /\ deps' = NoFiles

\* remove_dir_all failed, possibly after deleting part of the tree
clear_temp_dir_fails ==
    /\ dir_exists
    /\ dir_exists' = TRUE
    /\ deps' \in SUBSET deps

Panic(at) ==
    /\ outcome' = "panic"
    /\ panic_at' = at
    /\ pc' = "done"

(***************************************************************************)
(* main.                                                                   *)
(***************************************************************************)
main_unsupported ==
    /\ pc = "main"
    /\ host \notin SupportedHosts
    /\ outcome' = "StdFloatMath"
    /\ pc' = "done"
    /\ UNCHANGED << host, emit_type, fs, cwd, exit_status, files, emit_file, scan, res,
                    verdict, panic_at, log, probe >>

main_start ==
    /\ pc = "main"
    /\ host \in SupportedHosts
    /\ emit_type' = "Mir"
    /\ pc' = "gen_clear"
    /\ UNCHANGED << host, fs, cwd, exit_status, files, emit_file, scan, res, verdict,
                    ending, log, probe >>

(***************************************************************************)
(* gen_compiled_file.                                                      *)
(***************************************************************************)
\* the build starts without clearing the workspace
gen_clear_skipped ==
    /\ pc = "gen_clear"
    /\ log' = Append(log, << emit_type, "clear" >>)
    /\ pc' = "gen_chdir"
    /\ UNCHANGED << host, emit_type, fs, cwd, exit_status, files, emit_file, scan, res,
                    verdict, ending, probe >>

gen_clear ==
    /\ pc = "gen_clear"
    /\ log' = Append(log, << emit_type, "clear" >>)
    /\ \/ /\ clear_temp_dir_ok
          /\ pc' = "gen_chdir"
          /\ UNCHANGED ending
       \/ /\ clear_temp_dir_fails
          /\ Panic("gen_compiled_file/clear_temp_dir")
    /\ UNCHANGED << host, emit_type, cwd, exit_status, files, emit_file, scan, res,
                    verdict, probe >>

gen_chdir ==
    /\ pc = "gen_chdir"
    /\ \/ /\ cwd' = "tested_crate_dir"
          /\ pc' = "gen_spawn"
          /\ UNCHANGED ending
       \/ /\ cwd' = cwd
          /\ Panic("set_current_dir(tested_crate_dir)")
    /\ UNCHANGED << host, emit_type, fs, exit_status, files, emit_file, scan, res,
                    verdict, log, probe >>

gen_spawn ==
    /\ pc = "gen_spawn"
    /\ log' = Append(log, << emit_type, "compile" >>)
    /\ \/ /\ pc' = "cargo"
          /\ UNCHANGED ending
       \/ Panic("spawn")
    /\ UNCHANGED << host, emit_type, fs, cwd, exit_status, files, emit_file, scan, res,
                    verdict, probe >>

\* the compiler child: it may create the target directory and fill it, and
\* it ends with some exit code
cargo_rustc ==
    /\ pc = "cargo"
    /\ \/ /\ UNCHANGED fs
          /\ exit_status' = Some(101)
       \/ \E out \in CompilerOutputs, code \in ExitCodes :
            /\ dir_exists' = TRUE
            /\ deps' = deps \cup out
            /\ exit_status' = Some(code)
    /\ pc' = "gen_wait"
    /\ UNCHANGED << host, emit_type, cwd, files, emit_file, scan, res, verdict, ending,
                    log, probe >>

gen_wait ==
    /\ pc = "gen_wait"
    /\ \/ /\ pc' = "gen_restore"
          /\ UNCHANGED ending
       \/ Panic("wait")
    /\ UNCHANGED << host, emit_type, fs, cwd, exit_status, files, emit_file, scan, res,
                    verdict, log, probe >>

gen_restore ==
    /\ pc = "gen_restore"
    /\ \/ /\ cwd' = "this_crate_dir"
          /\ pc' = "compiled_file"
          /\ UNCHANGED ending
       \/ /\ cwd' = cwd
          /\ Panic("set_current_dir(this_crate_dir)")
    /\ UNCHANGED << host, emit_type, fs, exit_status, files, emit_file, scan, res,
                    verdict, log, probe >>

(***************************************************************************)
(* compiled_file.                                                          *)
(***************************************************************************)
compiled_file ==
    /\ pc = "compiled_file"
    /\ \/ \* glob_with(..)? : the pattern does not compile
          /\ res' = Err("Pattern")
          /\ pc' = "main_unwrap"
          /\ log' = Append(log, << emit_type, "locate" >>)
          /\ UNCHANGED << fs, files, emit_file, ending >>
       \/ \* entry? : a directory of the walk cannot be read
          /\ dir_exists
          /\ res' = Err("Glob")
          /\ pc' = "main_unwrap"
          /\ log' = Append(log, << emit_type, "locate" >>)
          /\ UNCHANGED << fs, files, emit_file, ending >>
       \/ \* the glob was expanded
          /\ files' = Some(glob_with(emit_type, deps))
          /\ IF unique_artifact(glob_with(emit_type, deps))
             THEN /\ emit_file' = Some(CHOOSE f \in glob_with(emit_type, deps) : TRUE)
                  /\ pc' = "std_math_open"
                  /\ log' = Append(log, << emit_type, "locate" >>)
                  /\ UNCHANGED << fs, res, ending >>
             ELSE /\ log' = log \o << << emit_type, "locate" >>, << emit_type, "clear" >> >>
                  /\ \/ /\ clear_temp_dir_ok
                        /\ Panic("assert!(files.len() == 1)")
                     \/ /\ clear_temp_dir_fails
                        /\ Panic("compiled_file/clear_temp_dir")
                  /\ UNCHANGED << emit_file, res >>
    /\ UNCHANGED << host, emit_type, cwd, exit_status, scan, verdict, probe >>

(***************************************************************************)
(* std_math_used.                                                          *)
(***************************************************************************)
Notice(file) == [print |-> "std math usage found in: ", text |-> file]
Echo(line)   == [print |-> "std math found: ", text |-> line]

std_math_open ==
    /\ pc = "std_math_open"
    /\ log' = Append(log, << emit_type, "scan" >>)
    /\ line_no' = 0
    /\ line_content' = << >>
    /\ captures' = None
    /\ std_math_used_flag' = FALSE
    /\ stdout' = << >>
    /\ \/ \* the file is opened; its text is whatever the compiler wrote
          /\ content' \in Contents
          /\ pc' = "std_math_loop"
          /\ res' = res
       \/ \* File::open(..)?
          /\ content' = << >>
          /\ res' = Err("Io")
          /\ pc' = "test_clear"
    /\ UNCHANGED << host, emit_type, fs, cwd, exit_status, files, emit_file, verdict,
                    ending, probe >>

\* only the first matching line is echoed
std_math_line_first_only ==
    /\ pc = "std_math_loop"
    /\ line_no < Len(content)
    /\ LET l == content[line_no + 1]
           m == std_math_patterns(emit_type, l)
       IN  /\ line_no' = line_no + 1
           /\ line_content' = l
           /\ captures' = Some(m)
           /\ std_math_used_flag' = (std_math_used_flag \/ m)
           /\ stdout' = IF m /\ ~std_math_used_flag
                        THEN stdout \o << Notice(emit_file[1]), Echo(l) >>
                        ELSE stdout
           /\ UNCHANGED << content, pc, res, ending >>
    /\ UNCHANGED << host, emit_type, fs, cwd, exit_status, files, emit_file, verdict,
                    log, probe >>

\* one iteration of the loop over content.lines()
std_math_line ==
    /\ pc = "std_math_loop"
    /\ line_no < Len(content)
    /\ \/ \* line? : the read fails
          /\ res' = Err("Io")
          /\ pc' = "test_clear"
          /\ UNCHANGED << scan, ending >>
       \/ \* captures(..).unwrap() : the search itself fails
          /\ line_no' = line_no + 1
          /\ line_content' = content[line_no + 1]
          /\ Panic("captures")
          /\ UNCHANGED << content, captures, std_math_used_flag, stdout, res >>
       \/ LET l == content[line_no + 1]
              m == std_math_patterns(emit_type, l)
          IN  /\ line_no' = line_no + 1
              /\ line_content' = l
              /\ captures' = Some(m)
              /\ std_math_used_flag' = (std_math_used_flag \/ m)
              /\ stdout' = IF ~m THEN stdout
                           ELSE IF ~std_math_used_flag
                                THEN stdout \o << Notice(emit_file[1]), Echo(l) >>
                                ELSE Append(stdout, Echo(l))
              /\ UNCHANGED << content, pc, res, ending >>
    /\ UNCHANGED << host, emit_type, fs, cwd, exit_status, files, emit_file, verdict,
                    log, probe >>

\* the iterator is exhausted: Ok(std_math_used)
std_math_return ==
    /\ pc = "std_math_loop"
    /\ line_no = Len(content)
    /\ res' = Ok(std_math_used_flag)
    /\ pc' = "test_clear"
    /\ UNCHANGED << host, emit_type, fs, cwd, exit_status, files, emit_file, scan,
                    verdict, ending, log, probe >>

(***************************************************************************)
(* test_asm_or_mir, after the scan.                                        *)
(***************************************************************************)
test_clear ==
    /\ pc = "test_clear"
    /\ log' = Append(log, << emit_type, "clear" >>)
    /\ \/ /\ clear_temp_dir_ok
          /\ pc' = "main_unwrap"
          /\ UNCHANGED ending
       \/ /\ clear_temp_dir_fails
          /\ Panic("test_asm_or_mir/clear_temp_dir")
    /\ UNCHANGED << host, emit_type, cwd, exit_status, files, emit_file, scan, res,
                    verdict, probe >>

(***************************************************************************)
(* main, after each sub-run.                                               *)
(***************************************************************************)
\* the locals of the sub-run go out of scope
SubRunLocalsDropped ==
    /\ exit_status' = None
    /\ files' = None
    /\ emit_file' = None
    /\ content' = << >>
    /\ line_no' = 0
    /\ line_content' = << >>
    /\ captures' = None
    /\ std_math_used_flag' = FALSE
    /\ stdout' = << >>
    /\ res' = NoResult

\* the Asm sub-run is skipped once the Mir verdict is true
main_unwrap_short_circuit ==
    /\ pc = "main_unwrap"
    /\ IF res.tag = "Err"
       THEN /\ Panic("unwrap")
            /\ UNCHANGED << emit_type, exit_status, files, emit_file, scan, res, verdict >>
       ELSE /\ SubRunLocalsDropped
            /\ UNCHANGED ending
            /\ IF emit_type = "Mir"
               THEN /\ std_math_used_in_mir' = Some(res.val)
                    /\ std_math_used_in_asm' =
                           IF res.val THEN Some(FALSE) ELSE std_math_used_in_asm
                    /\ emit_type' = "Asm"
                    /\ pc' = IF res.val THEN "main_final" ELSE "gen_clear"
               ELSE /\ std_math_used_in_asm' = Some(res.val)
                    /\ pc' = "main_final"
                    /\ UNCHANGED << emit_type, std_math_used_in_mir >>
    /\ UNCHANGED << host, fs, cwd, log, probe >>

\* .unwrap() on the result of test_asm_or_mir, Mir first and then Asm
main_unwrap ==
    /\ pc = "main_unwrap"
    /\ IF res.tag = "Err"
       THEN /\ Panic("unwrap")
            /\ UNCHANGED << emit_type, exit_status, files, emit_file, scan, res, verdict >>
       ELSE /\ SubRunLocalsDropped
            /\ UNCHANGED ending
            /\ IF emit_type = "Mir"
               THEN /\ std_math_used_in_mir' = Some(res.val)
                    /\ emit_type' = "Asm"
                    /\ pc' = "gen_clear"
                    /\ UNCHANGED std_math_used_in_asm
               ELSE /\ std_math_used_in_asm' = Some(res.val)
                    /\ pc' = "main_final"
                    /\ UNCHANGED << emit_type, std_math_used_in_mir >>
    /\ UNCHANGED << host, fs, cwd, log, probe >>

main_final ==
    /\ pc = "main_final"
    /\ outcome' = main_result(std_math_used_in_asm[1], std_math_used_in_mir[1])
    /\ pc' = "done"
    /\ UNCHANGED << host, emit_type, fs, cwd, exit_status, files, emit_file, scan, res,
                    verdict, panic_at, log, probe >>

Next ==
    \/ main_unsupported
    \/ main_start
    \/ gen_clear
    \/ gen_chdir
    \/ gen_spawn
    \/ cargo_rustc
    \/ gen_wait
    \/ gen_restore
    \/ compiled_file
    \/ std_math_open
    \/ std_math_line
    \/ std_math_return
    \/ test_clear
    \/ main_unwrap
    \/ main_final

Spec == Init /\ [][Next]_vars

(***************************************************************************)
(* The two patterns applied to probe lines.                                *)
(***************************************************************************)
PatternInit ==
    /\ host \in SupportedHosts
    /\ pc = "probe"
    /\ emit_type = "Mir"
    /\ dir_exists = FALSE
    /\ deps = NoFiles
    /\ cwd = "this_crate_dir"
    /\ exit_status = None
    /\ files = None
    /\ emit_file = None
    /\ content = << >>
    /\ line_no = 0
    /\ probe \in MirProbes \cup AsmProbes
    /\ line_content = ProbeLine(probe)
    /\ captures = None
    /\ std_math_used_flag = FALSE
    /\ stdout = << >>
    /\ res = NoResult
    /\ std_math_used_in_mir = None
    /\ std_math_used_in_asm = None
    /\ outcome = "running"
    /\ panic_at = ""
    /\ log = << >>

probe_mir_pattern ==
    /\ pc = "probe"
    /\ captures' = Some(mir_pattern(line_content))
    /\ pc' = "probed_mir"
    /\ UNCHANGED << host, emit_type, fs, cwd, exit_status, files, emit_file, content,
                    line_no, line_content, std_math_used_flag, stdout, res, verdict, ending,
                    log, probe >>

probe_asm_pattern ==
    /\ pc = "probe"
    /\ captures' = Some(asm_pattern(line_content))
    /\ pc' = "probed_asm"
    /\ UNCHANGED << host, emit_type, fs, cwd, exit_status, files, emit_file, content,
                    line_no, line_content, std_math_used_flag, stdout, res, verdict, ending,
                    log, probe >>

PatternNext == probe_mir_pattern \/ probe_asm_pattern

PatternSpec == PatternInit /\ [][PatternNext]_vars

(***************************************************************************)
(* Properties.                                                             *)
(***************************************************************************)
SubRun(m) ==
    << << m, "clear" >>, << m, "compile" >>, << m, "locate" >>, << m, "scan" >>,
       << m, "clear" >> >>

Canonical == SubRun("Mir") \o SubRun("Asm")

RECURSIVE IsSubSeq(_, _)
IsSubSeq(a, b) ==
    IF a = << >> THEN TRUE
    ELSE IF b = << >> THEN FALSE
    ELSE IF Head(a) = Head(b) THEN IsSubSeq(Tail(a), Tail(b))
    ELSE IsSubSeq(a, Tail(b))

IsPrefix(a, b) == Len(a) <= Len(b) /\ SubSeq(b, 1, Len(a)) = a

AssertPanic == "assert!(files.len() == 1)"

\* C1: when both sub-runs produced a verdict, the process ends with
\* StdFloatMath iff at least one verdict is true and with Ok iff both are
\* false, whichever mode the true verdict came from.
C1_FinalVerdictIsOr ==
    (pc = "done" /\ std_math_used_in_mir # None /\ std_math_used_in_asm # None)
        => /\ (outcome = "StdFloatMath")
                  <=> (std_math_used_in_mir[1] \/ std_math_used_in_asm[1])
           /\ (outcome = "Ok")
                  <=> (~std_math_used_in_mir[1] /\ ~std_math_used_in_asm[1])

C1_Witness ==
    /\ pc = "done"
    /\ std_math_used_in_mir = Some(TRUE)
    /\ std_math_used_in_asm = Some(FALSE)
    /\ outcome = "StdFloatMath"

\* C2: whenever a sub-run ends, with a verdict or with one of the failures
\* the claim lists (spawn or wait failure, glob or pattern error, zero or
\* several artifacts, I/O or regex error while scanning), build_dir does not
\* exist afterwards.
C2_WorkspaceGoneAfterSubRun ==
    (\/ pc = "main_unwrap"
     \/ panic_at \in { "spawn", "wait", AssertPanic, "captures" })
        => ~dir_exists

\* C3: when the compiler fails to spawn or exits with a non-zero status,
\* the sub-run stops there: compiled_file and std_math_used do not run and
\* no verdict is produced.
C3_BuildFailureIsFatal ==
    (\/ panic_at = "spawn"
     \/ (exit_status # None /\ exit_status[1] # 0))
        => /\ << emit_type, "locate" >> \notin Range(log)
           /\ << emit_type, "scan" >> \notin Range(log)
           /\ res.tag # "Ok"

\* the glob of the current emit type over the deps directory as it is now
CurrentMatches == glob_with(emit_type, deps)

\* C4, as claimed: a path is returned only when the glob expands to exactly
\* one file, and it is that file; with zero or several files the run ends
\* fatally with no path and no scan, and build_dir is gone at the abort.
C4_LocatorAsClaimed ==
    /\ (emit_file # None /\ pc \in { "std_math_open", "std_math_loop", "test_clear" })
           => CurrentMatches = { emit_file[1] }
    /\ (files # None /\ Cardinality(files[1]) # 1)
           => /\ outcome = "panic"
              /\ emit_file = None
              /\ << emit_type, "scan" >> \notin Range(log)
              /\ ~dir_exists

\* C4, amended: as claimed, except that build_dir is gone at the abort only
\* if removing it succeeded; when the removal fails the run aborts inside
\* clear_temp_dir with build_dir still there.
C4_LocatorAmended ==
    /\ (emit_file # None /\ pc \in { "std_math_open", "std_math_loop", "test_clear" })
           => CurrentMatches = { emit_file[1] }
    /\ (files # None /\ Cardinality(files[1]) # 1)
           => /\ outcome = "panic"
              /\ emit_file = None
              /\ << emit_type, "scan" >> \notin Range(log)
              /\ \/ panic_at = AssertPanic /\ ~dir_exists
                 \/ panic_at = "compiled_file/clear_temp_dir" /\ dir_exists

C4_Witness ==
    /\ panic_at = AssertPanic
    /\ files # None
    /\ Cardinality(files[1]) = 2
    /\ ~dir_exists

\* C5: at the moment the compiler is invoked build_dir does not exist, for
\* either emit type and whatever was there before; when an existing
\* build_dir cannot be removed the run ends and the compiler is not invoked.
C5_WorkspaceAbsentAtInvocation ==
    /\ pc \in { "gen_spawn", "cargo" } => ~dir_exists
    /\ panic_at = "gen_compiled_file/clear_temp_dir"
           => /\ outcome = "panic"
              /\ << emit_type, "compile" >> \notin Range(log)

C5_Witness ==
    /\ pc = "cargo"
    /\ emit_type = "Asm"
    /\ std_math_used_in_mir # None
    /\ ~dir_exists

\* C6: the failure reported on a host that is neither windows nor macos has
\* an error identity different from the one reported when forbidden usage
\* was found (and from a panic).
C6_DistinctErrorIdentities ==
    (pc = "done" /\ host \notin SupportedHosts)
        => outcome \notin { main_result(TRUE, TRUE), "panic" }

\* C7: once the build step has ended, by completion or by a failure to
\* spawn or to wait on the compiler, the working directory is again the
\* directory it was before the build step.
C7_WorkingDirRestored ==
    (\/ pc \in { "compiled_file", "std_math_open", "std_math_loop", "test_clear",
                 "main_unwrap", "main_final" }
     \/ panic_at \in { "spawn", "wait" })
        => cwd = "this_crate_dir"

\* the lines of the scanned file that match the pattern, in file order
MatchingLines ==
    SelectSeq(content, LAMBDA l : std_math_patterns(emit_type, l))

\* C8: for a file read to the end, std_math_used returns true iff some line
\* matches; it echoes every matching line in file order and no other line,
\* and prints the notice once, before the first echo, iff there is a match.
C8_ScanReportsEveryMatch ==
    (pc = "test_clear" /\ res.tag = "Ok")
        => /\ res.val = (\E i \in DOMAIN content :
                             std_math_patterns(emit_type, content[i]))
           /\ stdout = IF MatchingLines = << >> THEN << >>
                       ELSE << Notice(emit_file[1]) >>
                                \o [i \in DOMAIN MatchingLines |-> Echo(MatchingLines[i])]

C8_Witness ==
    /\ pc = "test_clear"
    /\ res = Ok(TRUE)
    /\ Len(MatchingLines) = 2
    /\ Len(stdout) = 3

\* C9: the steps occur in the order clear, compile, locate, scan, clear for
\* Mir and then, only after the whole Mir sub-run, the same for Asm; no step
\* occurs twice (one compiler invocation per emit type, no retry), none is
\* skipped short of a failure, and a run that ends with a result has gone
\* through the Asm sub-run even when the Mir verdict was true.
C9_StepOrder ==
    /\ IsSubSeq(log, Canonical)
    /\ \/ IsPrefix(log, Canonical)
       \/ /\ panic_at \in { AssertPanic, "compiled_file/clear_temp_dir" }
          /\ IsPrefix(SubSeq(log, 1, Len(log) - 1), Canonical)
          /\ log[Len(log) - 1] = << emit_type, "locate" >>
          /\ log[Len(log)] = << emit_type, "clear" >>
    /\ (\E i \in DOMAIN log : log[i][1] = "Asm")
           => /\ IsPrefix(SubRun("Mir"), log)
              /\ std_math_used_in_mir # None
    /\ (pc = "done" /\ outcome \in { "Ok", "StdFloatMath" } /\ host \in SupportedHosts)
           => log = Canonical

C9_Witness ==
    /\ pc = "done"
    /\ std_math_used_in_mir = Some(TRUE)
    /\ log = Canonical

\* C10: a line containing std::w1::<impl w2>::fn matches the Mir pattern iff
\* w1 = w2, and a line containing std::w1::impl$n::fn matches the Asm
\* pattern for every non-empty digit string n.
C10_PatternWidths ==
    /\ (pc = "probed_mir" /\ probe.kind = "mir")
           => captures = Some(probe.w1 = probe.w2)
    /\ (pc = "probed_asm" /\ probe.kind = "asm")
           => captures = Some(TRUE)

C10_Witness ==
    /\ pc = "probed_mir"
    /\ probe.kind = "mir"
    /\ probe.w1 # probe.w2
    /\ captures = Some(FALSE)
====
